---- MODULE Spec2Model ----
(***************************************************************************)
(* Energy Management Calendar (src/app/page.tsx): the component's state    *)
(* (visibleMonth, events, activeFilter, newEvent), its handlers and the    *)
(* derived views (monthInterval, filteredEvents, summary,                  *)
(* recommendations).                                                       *)
(*                                                                         *)
(* Representation.                                                         *)
(*  - A text is a sequence of one-character strings, so that trim, the     *)
(*    energy sanitiser, Number() and startsWith act on characters.  Seed   *)
(*    titles and notes, which no code path cuts, are one chunk.            *)
(*  - A calendar date (a JS Date at local midnight) is <<y, m, d>>.        *)
(*  - A number of kWh is an integer count of 1/Scale kWh: decimal texts of *)
(*    at most FracDigits fractional digits are represented exactly, and    *)
(*    sums and comparisons are exact decimal arithmetic.                   *)
(*  - Number() gives [isNaN, value]: NaN is isNaN = TRUE.                  *)
(***************************************************************************)
EXTENDS Integers, Sequences, FiniteSets, TLC

(***************************************************************************)
(* Bounds of the model.                                                    *)
(***************************************************************************)
\* months the user may navigate away from the month of `now`, either way
MaxMonthOffset == 1
\* accepted submissions in one session
MaxNew == 2
\* handleChange calls in one session of the page
MaxEdits == 3
\* handleChange calls in one session of the form alone (SpecForm)
MaxFormEdits == 4
\* milliseconds that may pass during the session
MaxClock == 1
\* Date.now() at page load, in milliseconds
ClockBase == 1000
\* fractional digits kept by the fixed-point representation of kWh
FracDigits == 2
\* events in a collection handed to the derived views (SpecView)
MaxViewLen == 3

RECURSIVE Pow10(_)
Pow10(n) == IF n = 0 THEN 1 ELSE 10 * Pow10(n - 1)

Scale == Pow10(FracDigits)

(***************************************************************************)
(* Texts.                                                                  *)
(***************************************************************************)
Digits == <<"0", "1", "2", "3", "4", "5", "6", "7", "8", "9">>

IsDigit(c) == \E i \in 1..10 : Digits[i] = c

DigitVal(c) == (CHOOSE i \in 1..10 : Digits[i] = c) - 1

\* String.prototype.trim on a text: white space leaves both ends
RECURSIVE TrimLeft(_)
TrimLeft(s) == IF s # <<>> /\ Head(s) = " " THEN TrimLeft(Tail(s)) ELSE s

RECURSIVE TrimRight(_)
TrimRight(s) ==
  IF s # <<>> /\ s[Len(s)] = " " THEN TrimRight(SubSeq(s, 1, Len(s) - 1)) ELSE s

trim(s) == TrimRight(TrimLeft(s))

\* String.prototype.startsWith
startsWith(s, prefix) ==
  /\ Len(prefix) <= Len(s)
  /\ SubSeq(s, 1, Len(prefix)) = prefix

\* decimal representation of a natural number, as `${n}` gives it
RECURSIVE ToText(_)
ToText(n) ==
  IF n < 10 THEN <<Digits[n + 1]>> ELSE ToText(n \div 10) \o <<Digits[(n % 10) + 1]>>

\* n written with at least w digits, zero padded (format's yyyy, MM, dd)
RECURSIVE Pad(_, _)
Pad(n, w) == IF Len(ToText(n)) >= w THEN ToText(n) ELSE <<"0">> \o Pad(n, w - 1)

(***************************************************************************)
(* The calendar collaborator (date-fns), Gregorian calendar, local dates.  *)
(***************************************************************************)
IsLeap(y) == (y % 4 = 0 /\ y % 100 # 0) \/ y % 400 = 0

DaysInMonth(y, m) ==
  IF m = 2 THEN (IF IsLeap(y) THEN 29 ELSE 28)
  ELSE IF m \in {4, 6, 9, 11} THEN 30 ELSE 31

\* days since 1970-01-01 of the date <<y, m, d>>
DayNum(date) ==
  LET y   == IF date[2] <= 2 THEN date[1] - 1 ELSE date[1]
      mp  == IF date[2] > 2 THEN date[2] - 3 ELSE date[2] + 9
      era == y \div 400
      yoe == y - era * 400
      doy == (153 * mp + 2) \div 5 + date[3] - 1
      doe == yoe * 365 + yoe \div 4 - yoe \div 100 + doy
  IN  era * 146097 + doe - 719468

\* Date.prototype.getDay: 0 is Sunday (1970-01-01 was a Thursday)
getDay(date) == (DayNum(date) + 4) % 7

NextDay(date) ==
  IF date[3] < DaysInMonth(date[1], date[2]) THEN <<date[1], date[2], date[3] + 1>>
  ELSE IF date[2] < 12 THEN <<date[1], date[2] + 1, 1>>
  ELSE <<date[1] + 1, 1, 1>>

PrevDay(date) ==
  IF date[3] > 1 THEN <<date[1], date[2], date[3] - 1>>
  ELSE IF date[2] > 1 THEN <<date[1], date[2] - 1, DaysInMonth(date[1], date[2] - 1)>>
  ELSE <<date[1] - 1, 12, 31>>

RECURSIVE AddDays(_, _)
AddDays(date, n) ==
  IF n = 0 THEN date
  ELSE IF n > 0 THEN AddDays(NextDay(date), n - 1)
  ELSE AddDays(PrevDay(date), n + 1)

startOfMonth(date) == <<date[1], date[2], 1>>

endOfMonth(date) == <<date[1], date[2], DaysInMonth(date[1], date[2])>>

\* startOfWeek(date, { weekStartsOn })
startOfWeek(date, weekStartsOn) ==
  AddDays(date, -((getDay(date) - weekStartsOn + 7) % 7))

\* endOfWeek(date, { weekStartsOn })
endOfWeek(date, weekStartsOn) ==
  AddDays(date, 6 - ((getDay(date) - weekStartsOn + 7) % 7))

\* eachDayOfInterval({ start, end }): every day from start to end, in order
RECURSIVE eachDayOfInterval(_, _)
eachDayOfInterval(start, end) ==
  IF DayNum(start) > DayNum(end) THEN <<>>
  ELSE <<start>> \o eachDayOfInterval(NextDay(start), end)

\* addMonths(date, amount) for the first day of a month
addMonths(date, amount) ==
  LET k == date[1] * 12 + (date[2] - 1) + amount
  IN  <<k \div 12, (k % 12) + 1, IF date[3] <= DaysInMonth(k \div 12, (k % 12) + 1)
                                   THEN date[3]
                                   ELSE DaysInMonth(k \div 12, (k % 12) + 1)>>

\* format(date, "yyyy-MM")
FormatMonth(date) == Pad(date[1], 4) \o <<"-">> \o Pad(date[2], 2)

\* format(date, "yyyy-MM-dd")
FormatDate(date) == FormatMonth(date) \o <<"-">> \o Pad(date[3], 2)

(***************************************************************************)
(* Numbers.                                                                *)
(***************************************************************************)
\* fault: the sanitiser lets every character through
Sanitise_KeepAll(s) == s

\* value.replace(/[^0-9.]/g, ""): every character that is neither a digit
\* nor "." is removed
RECURSIVE Sanitise(_)
Sanitise(s) ==
  IF s = <<>> THEN <<>>
  ELSE IF IsDigit(Head(s)) \/ Head(s) = "." THEN <<Head(s)>> \o Sanitise(Tail(s))
  ELSE Sanitise(Tail(s))

RECURSIVE AllDigits(_)
AllDigits(s) == s = <<>> \/ (IsDigit(Head(s)) /\ AllDigits(Tail(s)))

\* the natural number a digit text denotes (0 for the empty text)
RECURSIVE NatOf(_)
NatOf(s) ==
  IF s = <<>> THEN 0 ELSE 10 * NatOf(SubSeq(s, 1, Len(s) - 1)) + DigitVal(s[Len(s)])

\* the fraction a digit text denotes after the point, in 1/Scale
RECURSIVE FracOf(_, _)
FracOf(s, unit) ==
  IF s = <<>> THEN 0 ELSE DigitVal(Head(s)) * (unit \div 10) + FracOf(Tail(s), unit \div 10)

\* the place of the first "." of a text that holds one
DotAt(s) == CHOOSE i \in 1..Len(s) : s[i] = "." /\ \A j \in 1..(i - 1) : s[j] # "."

\* Number(text) on the texts the draft can hold: [isNaN, value in 1/Scale].
\* "" is 0; digits, digits "." digits*, and "." digits+ are decimal literals;
\* any other text is NaN.
Number(s) ==
  IF s = <<>> THEN [isNaN |-> FALSE, value |-> 0]
  ELSE IF AllDigits(s) THEN [isNaN |-> FALSE, value |-> NatOf(s) * Scale]
  ELSE IF \E i \in 1..Len(s) : s[i] = "."
    THEN LET int  == SubSeq(s, 1, DotAt(s) - 1)
             frac == SubSeq(s, DotAt(s) + 1, Len(s))
         IN  IF AllDigits(int) /\ AllDigits(frac) /\ Len(int) + Len(frac) > 0
               THEN [isNaN |-> FALSE, value |-> NatOf(int) * Scale + FracOf(frac, Scale)]
               ELSE [isNaN |-> TRUE, value |-> 0]
  ELSE [isNaN |-> TRUE, value |-> 0]

\* Math.round of the rational n / d, d > 0: the nearest integer, a half
\* going up
MathRound(n, d) == (2 * n + d) \div (2 * d)

Max(a, b) == IF a >= b THEN a ELSE b

Min(a, b) == IF a <= b THEN a ELSE b

(***************************************************************************)
(* Seed data and fixed choices of the page.                                *)
(***************************************************************************)
EnergyTypes == {"Demand", "Production", "Storage", "Provision"}

Statuses == {"Scheduled", "Completed", "Opportunity"}

filterOptions == <<"All", "Demand", "Production", "Storage", "Provision">>

NoNotes == [defined |-> FALSE, text |-> <<>>]

Notes(t) == [defined |-> TRUE, text |-> t]

EventId(n) == <<"e", "v", "e", "n", "t", "-">> \o ToText(n)

\* format(new Date(), "yyyy-MM-<dd>"): the seed dates lie in the month of `today`
SeedDate(today, dd) == FormatMonth(today) \o <<"-">> \o dd

initialEvents(today) == <<
  [id |-> EventId(1), title |-> <<"EV Fleet Charging">>, type |-> "Demand",
   date |-> SeedDate(today, <<"0", "5">>), startTime |-> "19:00", endTime |-> "22:30",
   energyKwh |-> 420 * Scale, status |-> "Scheduled", efficiencyScore |-> 68,
   notes |-> Notes(<<"Aligned with evening time-of-use incentives.">>)],
  [id |-> EventId(2), title |-> <<"Solar Array Generation">>, type |-> "Production",
   date |-> SeedDate(today, <<"0", "6">>), startTime |-> "07:30", endTime |-> "17:30",
   energyKwh |-> 560 * Scale, status |-> "Completed", efficiencyScore |-> 92,
   notes |-> Notes(<<"Exceeded forecast by 8% due to clear skies.">>)],
  [id |-> EventId(3), title |-> <<"Battery Reserve Charge">>, type |-> "Storage",
   date |-> SeedDate(today, <<"0", "8">>), startTime |-> "00:30", endTime |-> "02:00",
   energyKwh |-> 135 * Scale, status |-> "Scheduled", efficiencyScore |-> 83,
   notes |-> Notes(<<"Nighttime charging to prep for peak shifting.">>)],
  [id |-> EventId(4), title |-> <<"Community Energy Share">>, type |-> "Provision",
   date |-> SeedDate(today, <<"1", "0">>), startTime |-> "14:00", endTime |-> "16:00",
   energyKwh |-> 220 * Scale, status |-> "Completed", efficiencyScore |-> 88,
   notes |-> Notes(<<"Delivered surplus to adjacent microgrid.">>)],
  [id |-> EventId(5), title |-> <<"Data Center Load Test">>, type |-> "Demand",
   date |-> SeedDate(today, <<"1", "5">>), startTime |-> "13:00", endTime |-> "15:00",
   energyKwh |-> 315 * Scale, status |-> "Scheduled", efficiencyScore |-> 54,
   notes |-> Notes(<<"Consider shifting to weekend window.">>)],
  [id |-> EventId(6), title |-> <<"Wind Turbine Peak">>, type |-> "Production",
   date |-> SeedDate(today, <<"1", "7">>), startTime |-> "02:00", endTime |-> "05:00",
   energyKwh |-> 410 * Scale, status |-> "Completed", efficiencyScore |-> 79,
   notes |-> Notes(<<"Met forecast; turbulence reduced output by 5%.">>)],
  [id |-> EventId(7), title |-> <<"Thermal Storage Discharge">>, type |-> "Storage",
   date |-> SeedDate(today, <<"2", "2">>), startTime |-> "16:30", endTime |-> "19:00",
   energyKwh |-> 190 * Scale, status |-> "Opportunity", efficiencyScore |-> 72,
   notes |-> Notes(<<"Dispatch to cover peak pricing interval.">>)] >>

\* the draft of the activity form after construction
initialNewEvent(today) ==
  [title |-> <<>>, type |-> "Demand", date |-> FormatDate(today), startTime |-> "08:00",
   endTime |-> "09:00", energyKwh |-> <<>>, status |-> "Scheduled", notes |-> <<>>]

(***************************************************************************)
(* Derived views: pure functions of the Event Store, the visible month and *)
(* the active filter (the useMemo blocks).                                 *)
(***************************************************************************)
\* Array.prototype.filter on the events of one type
OfType(evs, type) == LET Keep(e) == e.type = type IN SelectSeq(evs, Keep)

RECURSIVE SumEnergy(_)
SumEnergy(evs) == IF evs = <<>> THEN 0 ELSE Head(evs).energyKwh + SumEnergy(Tail(evs))

RECURSIVE SumScore(_)
SumScore(evs) == IF evs = <<>> THEN 0 ELSE Head(evs).efficiencyScore + SumScore(Tail(evs))

\* fault: the weeks of the grid start on Monday
monthInterval_MondayWeeks(month) ==
  eachDayOfInterval(startOfWeek(startOfMonth(month), 1), endOfWeek(endOfMonth(month), 1))

\* monthInterval: the date grid of the visible month
monthInterval(month) ==
  LET start == startOfWeek(startOfMonth(month), 0)
      end   == endOfWeek(endOfMonth(month), 0)
  IN  eachDayOfInterval(start, end)

\* fault: the active filter is ignored
filteredEvents_NoFilter(evs, filter) == evs

\* filteredEvents
filteredEvents(evs, filter) ==
  IF filter = "All" THEN evs ELSE OfType(evs, filter)

\* what parseISO makes of a text that is not a calendar date
InvalidDate == <<0, 0, 0>>

\* parseISO on the texts a date input holds: "yyyy-MM-dd" naming a day that
\* exists gives that day, anything else gives an Invalid Date
parseISO(text) ==
  IF /\ Len(text) = 10
     /\ text[5] = "-"
     /\ text[8] = "-"
     /\ AllDigits(SubSeq(text, 1, 4) \o SubSeq(text, 6, 7) \o SubSeq(text, 9, 10))
  THEN LET y == NatOf(SubSeq(text, 1, 4))
           m == NatOf(SubSeq(text, 6, 7))
           d == NatOf(SubSeq(text, 9, 10))
       IN  IF m \in 1..12 /\ d >= 1 /\ d <= DaysInMonth(y, m) THEN <<y, m, d>> ELSE InvalidDate
  ELSE InvalidDate

\* isSameDay: an Invalid Date is the same day as nothing
isSameDay(dateLeft, dateRight) ==
  /\ dateLeft # InvalidDate
  /\ dateRight # InvalidDate
  /\ dateLeft = dateRight

\* the events of one cell of the grid
dayEvents(evs, filter, day) ==
  LET OnDay(event) == isSameDay(parseISO(event.date), day)
  IN  SelectSeq(filteredEvents(evs, filter), OnDay)

\* const monthEvents = events.filter((event) => event.date.startsWith(monthKey))
monthEvents(evs, month) ==
  LET monthKey == FormatMonth(month)
      Keep(e)  == startsWith(e.date, monthKey)
  IN  SelectSeq(evs, Keep)

\* the reduce over monthEvents that accumulates energyKwh by type
totalsByType(evs, month) ==
  [type \in EnergyTypes |-> SumEnergy(OfType(monthEvents(evs, month), type))]

\* fault: the storage buffer is left out of the balance
netBalance_NoStorage(totalProduction, storageBuffer, totalConsumption) ==
  totalProduction - totalConsumption

\* const netBalance = totalProduction + storageBuffer - totalConsumption
netBalance(totalProduction, storageBuffer, totalConsumption) ==
  totalProduction + storageBuffer - totalConsumption

\* fault: the mean is truncated, not rounded
averageEfficiency_Truncated(selected) ==
  IF Len(selected) > 0 THEN SumScore(selected) \div Len(selected) ELSE 0

\* averageEfficiency: the rounded mean of the scores, 0 for no events
averageEfficiency(selected) ==
  IF Len(selected) > 0 THEN MathRound(SumScore(selected), Len(selected)) ELSE 0

\* summary
summary(evs, month) ==
  LET totals    == totalsByType(evs, month)
      selected  == monthEvents(evs, month)
      Done(e)   == e.status = "Completed"
  IN  [totalsByType      |-> totals,
       totalConsumption  |-> totals["Demand"],
       totalProduction   |-> totals["Production"] + totals["Provision"],
       storageBuffer     |-> totals["Storage"],
       netBalance        |-> netBalance(totals["Production"] + totals["Provision"],
                                        totals["Storage"], totals["Demand"]),
       completedCount    |-> Len(SelectSeq(selected, Done)),
       totalEvents       |-> Len(selected),
       averageEfficiency |-> averageEfficiency(selected)]

\* lowEfficiencyEvents.join(" & ")
RECURSIVE Join(_)
Join(titles) ==
  IF titles = <<>> THEN <<>>
  ELSE IF Len(titles) = 1 THEN Head(titles)
  ELSE Head(titles) \o <<" & ">> \o Join(Tail(titles))

\* fault: slice(0, 1) keeps one low-efficiency event only
lowEfficiencyEvents_FirstOnly(evs) ==
  LET Low(e) == e.efficiencyScore < 70
      low    == SelectSeq(evs, Low)
  IN  [i \in 1..Min(1, Len(low)) |-> low[i].title]

\* events.filter((event) => event.efficiencyScore < 70).slice(0, 2).map((event) => event.title)
lowEfficiencyEvents(evs) ==
  LET Low(e) == e.efficiencyScore < 70
      low    == SelectSeq(evs, Low)
  IN  [i \in 1..Min(2, Len(low)) |-> low[i].title]

\* summary.totalsByType.Demand > summary.totalsByType.Production * 1.2
DemandPeaks(sum) == 10 * sum.totalsByType["Demand"] > 12 * sum.totalsByType["Production"]

\* rule 1: exactly one of the two balance advisories
BalanceAdvisory(sum) ==
  IF sum.netBalance < 0
    THEN << [title  |-> "Net Load Imbalance",
             detail |-> <<"Demand outpaces supply this month.">>] >>
    ELSE << [title  |-> "Positive Net Balance",
             detail |-> <<"You're producing more energy than you consume.">>] >>

\* rule 2
PeaksAdvisory(sum) ==
  IF DemandPeaks(sum)
    THEN << [title  |-> "Demand Peaks Forecasted",
             detail |-> <<"Forecasted demand is 20% above on-site production.">>] >>
    ELSE <<>>

\* rule 3
EfficiencyAdvisory(evs) ==
  IF Len(lowEfficiencyEvents(evs)) > 0
    THEN << [title  |-> "Improve Efficiency Scores",
             detail |-> <<"Optimize schedules for ">> \o Join(lowEfficiencyEvents(evs))
                        \o <<" to boost their efficiency ratings above 70%.">>] >>
    ELSE <<>>

\* fault: rule 3 is evaluated before rule 2
recommendations_EfficiencyFirst(sum, evs) ==
  BalanceAdvisory(sum) \o EfficiencyAdvisory(evs) \o PeaksAdvisory(sum)

\* recommendations: the advisories, in rule order
recommendations(sum, evs) ==
  BalanceAdvisory(sum) \o PeaksAdvisory(sum) \o EfficiencyAdvisory(evs)

(***************************************************************************)
(* State.                                                                  *)
(***************************************************************************)
VARIABLES
  now,           \* const now = new Date(), read once at page load: <<y, m, d>>
  visibleMonth,  \* useState(startOfMonth(now)): the first day of a month
  events,        \* useState(initialEvents): the Event Store
  activeFilter,  \* useState("All")
  newEvent,      \* useState({...}): the draft of the activity form
  clock,         \* the latest reading of Date.now(), in milliseconds
  lastSubmit,    \* outcome of the latest handler when it was a form submit
  edits          \* handleChange calls the session still allows

vars == <<now, visibleMonth, events, activeFilter, newEvent, clock, lastSubmit, edits>>

\* days on which the page may be loaded
NowChoices == {<<2024, 1, 31>>}

(***************************************************************************)
(* What the user can type or pick in the form.                             *)
(***************************************************************************)
TitleInputs == {<<" ">>, <<" ", "A", " ">>}

\* a day of the month after the month of `now`, and the cleared date field
DateInputs == {<<>>, FormatDate(addMonths(<<now[1], now[2], 20>>, 1))}

TimeInputs == {"19:00"}

EnergyInputs ==
  { <<"a", "b", "c">>, <<"6", "0", "0">>, <<"1", "0", "0">>, <<"5", "0">>, <<"5">>,
    <<"1", ".", "2", ".", "3">>, <<"0">>, <<"4", "k", "5", ".", "5">> }

NotesInputs == {<<" ">>, <<" ", "n">>}

Fields == {"title", "type", "date", "startTime", "endTime", "energyKwh", "status", "notes"}

InputsOf(field) ==
  CASE field = "title" -> TitleInputs
    [] field = "type" -> EnergyTypes
    [] field = "date" -> DateInputs
    [] field = "startTime" -> TimeInputs
    [] field = "endTime" -> TimeInputs
    [] field = "energyKwh" -> EnergyInputs
    [] field = "status" -> Statuses
    [] field = "notes" -> NotesInputs

(***************************************************************************)
(* Construction.                                                           *)
(***************************************************************************)
Init ==
  /\ now \in NowChoices
  /\ visibleMonth = startOfMonth(now)
  /\ events = initialEvents(now)
  /\ activeFilter = "All"
  /\ newEvent = initialNewEvent(now)
  /\ clock = ClockBase
  /\ lastSubmit = "none"
  /\ edits = MaxEdits

(***************************************************************************)
(* Handlers.                                                               *)
(***************************************************************************)
\* months between the visible month and the month of `now`
MonthOffset(month) == (month[1] * 12 + month[2]) - (now[1] * 12 + now[2])

\* handleMonthChange(direction)
handleMonthChange(direction) ==
  /\ direction \in {"prev", "next"}
  /\ LET target == IF direction = "prev" THEN addMonths(visibleMonth, -1)
                   ELSE addMonths(visibleMonth, 1)
     IN  /\ MonthOffset(target) \in (-MaxMonthOffset)..MaxMonthOffset
         /\ visibleMonth' = target
  /\ lastSubmit' = "none"
  /\ UNCHANGED <<now, events, activeFilter, newEvent, clock, edits>>

\* the Today button: setVisibleMonth(startOfMonth(now))
Today ==
  /\ visibleMonth' = startOfMonth(now)
  /\ lastSubmit' = "none"
  /\ UNCHANGED <<now, events, activeFilter, newEvent, clock, edits>>

\* a filter button: setActiveFilter(option)
SetActiveFilter(option) ==
  /\ activeFilter' = option
  /\ lastSubmit' = "none"
  /\ UNCHANGED <<now, visibleMonth, events, newEvent, clock, edits>>

\* handleChange(field, value)
handleChange(field, value) ==
  /\ edits > 0
  /\ edits' = edits - 1
  /\ newEvent' = [newEvent EXCEPT ![field] =
                    IF field = "energyKwh" THEN Sanitise(value) ELSE value]
  /\ lastSubmit' = "none"
  /\ UNCHANGED <<now, visibleMonth, events, activeFilter, clock>>

\* fault: the early returns without the energyValue <= 0 test
Rejected_NoPositiveCheck(draft) ==
  \/ trim(draft.title) = <<>>
  \/ draft.date = <<>>
  \/ draft.energyKwh = <<>>
  \/ Number(draft.energyKwh).isNaN

\* the early returns of handleCreateEvent
Rejected(draft) ==
  \/ trim(draft.title) = <<>>
  \/ draft.date = <<>>
  \/ draft.energyKwh = <<>>
  \/ Number(draft.energyKwh).isNaN
  \/ Number(draft.energyKwh).value <= 0

\* fault: the score without the energyValue > 500 branch
DerivedScore_NoCap(energyValue) ==
  Min(100, Max(40, MathRound(900 * Scale - energyValue, 10 * Scale)))

\* Math.min(100, Math.max(40, Math.round(energyValue > 500 ? 80 : 90 - energyValue / 10)))
DerivedScore(energyValue) ==
  Min(100, Max(40, IF energyValue > 500 * Scale THEN 80
                   ELSE MathRound(900 * Scale - energyValue, 10 * Scale)))

\* the id of a created event: `event-${Date.now()}`
NewId(t) == EventId(t)

\* notes: newEvent.notes?.trim() || undefined
CreatedNotes(text) == IF trim(text) = <<>> THEN NoNotes ELSE Notes(trim(text))

createdEvent(draft, t) ==
  [id |-> NewId(t), title |-> trim(draft.title), type |-> draft.type, date |-> draft.date,
   startTime |-> draft.startTime, endTime |-> draft.endTime,
   energyKwh |-> Number(draft.energyKwh).value, status |-> draft.status,
   efficiencyScore |-> DerivedScore(Number(draft.energyKwh).value),
   notes |-> CreatedNotes(draft.notes)]

\* fault: the draft is left as it was submitted
ResetDraft_NoReset(draft) == draft

\* the draft after an accepted submission
ResetDraft(draft) ==
  [title |-> <<>>, type |-> draft.type, date |-> draft.date, startTime |-> "08:00",
   endTime |-> "09:00", energyKwh |-> <<>>, status |-> draft.status, notes |-> <<>>]

\* fault: the created event is put in front of the store
AppendEvent_Prepend(prev, created) == <<created>> \o prev

\* setEvents((prev) => [...prev, createdEvent])
AppendEvent(prev, created) == Append(prev, created)

\* handleCreateEvent(event): the form's submit; t is what Date.now() returns
\* when the handler reads it.  The handler is taken in every state of the
\* draft: the disabled state of the submit button (blank title or empty energy
\* text) is not relied on.
handleCreateEvent(t) ==
  IF Rejected(newEvent)
    THEN /\ lastSubmit' = "rejected"
         /\ UNCHANGED <<now, visibleMonth, events, activeFilter, newEvent, clock, edits>>
    ELSE /\ Len(events) < Len(initialEvents(now)) + MaxNew
         /\ events' = AppendEvent(events, createdEvent(newEvent, t))
         /\ newEvent' = ResetDraft(newEvent)
         /\ clock' = t
         /\ lastSubmit' = "accepted"
         /\ UNCHANGED <<now, visibleMonth, activeFilter, edits>>

\* the readings Date.now() may give next: the clock does not run backwards
ClockReadings == clock..(ClockBase + MaxClock)

Next ==
  \/ \E direction \in {"prev", "next"} : handleMonthChange(direction)
  \/ Today
  \/ \E i \in 1..Len(filterOptions) : SetActiveFilter(filterOptions[i])
  \/ \E field \in Fields : \E value \in InputsOf(field) : handleChange(field, value)
  \/ \E t \in ClockReadings : handleCreateEvent(t)

Spec == Init /\ [][Next]_vars

(***************************************************************************)
(* The activity form alone: the handlers that can change the Event Store   *)
(* and the draft, in a longer session.                                     *)
(***************************************************************************)
InitForm ==
  /\ now \in NowChoices
  /\ visibleMonth = startOfMonth(now)
  /\ events = initialEvents(now)
  /\ activeFilter = "All"
  /\ newEvent = initialNewEvent(now)
  /\ clock = ClockBase
  /\ lastSubmit = "none"
  /\ edits = MaxFormEdits

NextForm ==
  \/ \E field \in Fields : \E value \in InputsOf(field) : handleChange(field, value)
  \/ \E t \in ClockReadings : handleCreateEvent(t)

SpecForm == InitForm /\ [][NextForm]_vars

(***************************************************************************)
(* The derived views over any event collection: the Event Store holds a    *)
(* collection drawn from a pool of seed and created events, and the user   *)
(* navigates and filters.                                                  *)
(***************************************************************************)
ViewNowChoices == {<<2024, 1, 31>>, <<2026, 11, 2>>}

\* drafts a user may have submitted, and the events they create
SampleDrafts(today) == <<
  [title |-> <<" ", "A", " ">>, type |-> "Demand",
   date |-> FormatDate(addMonths(<<today[1], today[2], 20>>, 1)),
   startTime |-> "08:00", endTime |-> "09:00", energyKwh |-> <<"6", "0", "0">>,
   status |-> "Scheduled", notes |-> <<>>],
  [title |-> <<"B">>, type |-> "Production", date |-> FormatDate(today),
   startTime |-> "08:00", endTime |-> "09:00", energyKwh |-> <<"2", "5", "0", ".", "5">>,
   status |-> "Completed", notes |-> <<" ", "n">>] >>

EventPool(today) ==
  initialEvents(today)
  \o [i \in 1..Len(SampleDrafts(today)) |-> createdEvent(SampleDrafts(today)[i], ClockBase + i)]

\* the sequences of at most n distinct members of 1..k
RECURSIVE Picks(_, _)
Picks(k, n) ==
  IF n = 0 THEN {<<>>}
  ELSE Picks(k, n - 1)
       \cup {Append(p, i) : p \in {q \in Picks(k, n - 1) : Len(q) = n - 1}, i \in 1..k}

ViewCollections(today) ==
  LET pool == EventPool(today)
      Distinct(p) == \A i, j \in 1..Len(p) : i # j => p[i] # p[j]
  IN  {[i \in 1..Len(p) |-> pool[p[i]]] : p \in {q \in Picks(Len(pool), MaxViewLen) : Distinct(q)}}
      \cup {initialEvents(today)}

InitView ==
  /\ now \in ViewNowChoices
  /\ visibleMonth = startOfMonth(now)
  /\ events \in ViewCollections(now)
  /\ activeFilter = "All"
  /\ newEvent = initialNewEvent(now)
  /\ clock = ClockBase
  /\ lastSubmit = "none"
  /\ edits = 0

NextView ==
  \/ \E direction \in {"prev", "next"} : handleMonthChange(direction)
  \/ Today
  \/ \E i \in 1..Len(filterOptions) : SetActiveFilter(filterOptions[i])

SpecView == InitView /\ [][NextView]_vars

(***************************************************************************)
(* Navigation alone, from many page-load days: leap and common Februaries, *)
(* century years, year changes, months of four, five and six grid weeks.   *)
(***************************************************************************)
NavNowChoices ==
  { <<2000, 2, 29>>, <<2023, 5, 10>>, <<2024, 1, 31>>, <<2024, 8, 15>>,
    <<2026, 2, 14>>, <<2026, 11, 2>>, <<2027, 12, 31>>, <<2100, 2, 1>> }

InitNav ==
  /\ now \in NavNowChoices
  /\ visibleMonth = startOfMonth(now)
  /\ events = initialEvents(now)
  /\ activeFilter = "All"
  /\ newEvent = initialNewEvent(now)
  /\ clock = ClockBase
  /\ lastSubmit = "none"
  /\ edits = 0

SpecNav == InitNav /\ [][NextView]_vars

(***************************************************************************)
(* The day cells, over stores that crowd a day: the form adds to the day   *)
(* of the first seed an event of its type and one of another type, and to  *)
(* the first day of the following month, a trailing cell of the grid, a    *)
(* third.                                                                  *)
(***************************************************************************)
DayDrafts(today) == <<
  [title |-> <<"C">>, type |-> "Demand", date |-> initialEvents(today)[1].date,
   startTime |-> "08:00", endTime |-> "09:00", energyKwh |-> <<"1", "0", "0">>,
   status |-> "Scheduled", notes |-> <<>>],
  [title |-> <<"D">>, type |-> "Production", date |-> initialEvents(today)[1].date,
   startTime |-> "08:00", endTime |-> "09:00", energyKwh |-> <<"5", "0">>,
   status |-> "Scheduled", notes |-> <<>>],
  [title |-> <<"E">>, type |-> "Storage",
   date |-> FormatDate(addMonths(startOfMonth(today), 1)),
   startTime |-> "08:00", endTime |-> "09:00", energyKwh |-> <<"5">>,
   status |-> "Opportunity", notes |-> <<>>] >>

DayPool(today) ==
  SubSeq(initialEvents(today), 1, 2)
  \o [i \in 1..Len(DayDrafts(today)) |-> createdEvent(DayDrafts(today)[i], ClockBase + i)]

DayCollections(today) ==
  LET pool == DayPool(today)
      Distinct(p) == \A i, j \in 1..Len(p) : i # j => p[i] # p[j]
  IN  {[i \in 1..Len(p) |-> pool[p[i]]] : p \in {q \in Picks(Len(pool), MaxViewLen) : Distinct(q)}}

InitDay ==
  /\ now \in ViewNowChoices
  /\ visibleMonth = startOfMonth(now)
  /\ events \in DayCollections(now)
  /\ activeFilter = "All"
  /\ newEvent = initialNewEvent(now)
  /\ clock = ClockBase
  /\ lastSubmit = "none"
  /\ edits = 0

SpecDay == InitDay /\ [][NextView]_vars

(***************************************************************************)
(* Properties.                                                             *)
(***************************************************************************)
SeedCount == Len(initialEvents(now))

\* the events created by the form, in the order of their creation
CreatedEvents == SubSeq(events, SeedCount + 1, Len(events))

Blank(text) == \A i \in 1..Len(text) : text[i] = " "

\* a draft the form must refuse: blank title, no date, no energy text, an
\* energy text that is no number, or an energy that is not positive
InvalidDraft(draft) ==
  \/ Blank(draft.title)
  \/ draft.date = <<>>
  \/ draft.energyKwh = <<>>
  \/ Number(draft.energyKwh).isNaN
  \/ Number(draft.energyKwh).value <= 0

\* C1: a submit of an invalid draft (blank title, empty date, empty energy
\* text, energy text that is not a number, energy <= 0) changes nothing: the
\* Event Store and every draft field keep their values.
C1_RejectedSubmitChangesNothing ==
  [][(lastSubmit' # "none" /\ InvalidDraft(newEvent))
       => /\ events' = events
          /\ newEvent' = newEvent
          /\ visibleMonth' = visibleMonth
          /\ activeFilter' = activeFilter]_vars

\* C1 witness: a submit was just refused for an energy text that is no number,
\* with a title and a date present
C1_Witness ==
  /\ lastSubmit = "rejected"
  /\ ~Blank(newEvent.title)
  /\ newEvent.date # <<>>
  /\ newEvent.energyKwh # <<>>
  /\ Number(newEvent.energyKwh).isNaN
  /\ events = initialEvents(now)

\* C2: the ids of the events of the Event Store, seed events included, are
\* pairwise distinct in every reachable state.
C2_IdsPairwiseDistinct ==
  \A i, j \in 1..Len(events) : i # j => events[i].id # events[j].id

\* C3: the Event Store starts as the seed list, and every step leaves it
\* unchanged or appends exactly one event at its end; only an accepted submit
\* appends, and a refused submit, an edit, a navigation and a filter change
\* leave it unchanged.
C3_AppendOnly ==
  /\ events = initialEvents(now)
  /\ [][ /\ \/ events' = events
            \/ /\ lastSubmit' = "accepted"
               /\ Len(events') = Len(events) + 1
               /\ SubSeq(events', 1, Len(events)) = events
         /\ lastSubmit' = "accepted" => Len(events') = Len(events) + 1
         /\ lastSubmit' \in {"none", "rejected"} => events' = events ]_vars

\* C3 witness: an accepted submit has appended one event after the seeds
C3_Witness ==
  /\ lastSubmit = "accepted"
  /\ Len(events) = SeedCount + 1
  /\ SubSeq(events, 1, SeedCount) = initialEvents(now)
  /\ events[Len(events)].title = <<"A">>

\* round(90 - e / 10) for an energy e (in 1/Scale kWh) of at most 500 kWh: the
\* integer r with r - 1/2 <= 90 - e / 10 < r + 1/2
RoundedScore(e) ==
  CHOOSE r \in 0..100 :
    /\ (2 * r - 1) * 10 * Scale <= 2 * (900 * Scale - e)
    /\ 2 * (900 * Scale - e) < (2 * r + 1) * 10 * Scale

\* C4: every created event has energy > 0 and an integer score in [40,100]
\* that is 80 when the energy exceeds 500 and otherwise round(90 - energy/10)
\* clamped to [40,100]; energy 600 gives 80, 100 gives 80, 50 gives 85.
C4_DerivedScore ==
  \A i \in 1..Len(CreatedEvents) :
    LET e     == CreatedEvents[i].energyKwh
        score == CreatedEvents[i].efficiencyScore
    IN  /\ e > 0
        /\ score \in 40..100
        /\ e > 500 * Scale => score = 80
        /\ e <= 500 * Scale => score = Min(100, Max(40, RoundedScore(e)))
        /\ e = 600 * Scale => score = 80
        /\ e = 100 * Scale => score = 80
        /\ e = 50 * Scale => score = 85

\* C4 witness: events were created from the energy texts "600" and "50"
C4_Witness ==
  /\ \E i \in 1..Len(CreatedEvents) :
       CreatedEvents[i].energyKwh = 600 * Scale /\ CreatedEvents[i].efficiencyScore = 80
  /\ \E i \in 1..Len(CreatedEvents) :
       CreatedEvents[i].energyKwh = 50 * Scale /\ CreatedEvents[i].efficiencyScore = 85

DotCount(text) == Cardinality({i \in 1..Len(text) : text[i] = "."})

\* C5 as stated: the draft energy text holds only digits and at most one
\* decimal point.
C5_DigitsAndAtMostOneDot ==
  /\ \A i \in 1..Len(newEvent.energyKwh) :
       IsDigit(newEvent.energyKwh[i]) \/ newEvent.energyKwh[i] = "."
  /\ DotCount(newEvent.energyKwh) <= 1

\* C5 amended: the draft energy text holds only digits and decimal points,
\* any number of them.
C5_DigitsAndDotsOnly ==
  \A i \in 1..Len(newEvent.energyKwh) :
    IsDigit(newEvent.energyKwh[i]) \/ newEvent.energyKwh[i] = "."

\* C5 witness: the edit "4k5.5" of the energy field was stored as "45.5"
C5_Witness == newEvent.energyKwh = <<"4", "5", ".", "5">> /\ edits < MaxEdits

\* the views the page renders in the current state
Summary == summary(events, visibleMonth)

Recs == recommendations(Summary, events)

RecTitles == LET recs == Recs IN [i \in 1..Len(recs) |-> recs[i].title]

\* C6: the recommendation list starts with exactly one of "Net Load
\* Imbalance" (netBalance < 0) and "Positive Net Balance" (otherwise), never
\* both, followed by at most one "Demand Peaks Forecasted" and then at most one
\* "Improve Efficiency Scores": its length is between 1 and 3.
C6_RecommendationShape ==
  LET sum    == Summary
      titles == RecTitles
  IN  /\ Len(titles) \in 1..3
      /\ Cardinality({i \in 1..Len(titles) :
                        titles[i] \in {"Net Load Imbalance", "Positive Net Balance"}}) = 1
      /\ titles[1] = IF sum.netBalance < 0 THEN "Net Load Imbalance"
                     ELSE "Positive Net Balance"
      /\ Tail(titles) \in { <<>>, <<"Demand Peaks Forecasted">>,
                            <<"Improve Efficiency Scores">>,
                            <<"Demand Peaks Forecasted", "Improve Efficiency Scores">> }

\* C6 witness: all three rules fire, on a negative balance, in the month
\* after the month of the page load
C6_Witness ==
  /\ MonthOffset(visibleMonth) = 1
  /\ Summary.netBalance < 0
  /\ RecTitles = <<"Net Load Imbalance", "Demand Peaks Forecasted",
                   "Improve Efficiency Scores">>

LowIndices == {i \in 1..Len(events) : events[i].efficiencyScore < 70}

MinOf(S) == CHOOSE i \in S : \A j \in S : i <= j

\* the titles the advisory must name: the first low-efficiency event of the
\* collection and, when there is one, the second
LowTitlesJoined ==
  LET low   == LowIndices
      first == MinOf(low)
      rest  == low \ {first}
  IN  IF rest = {} THEN events[first].title
      ELSE events[first].title \o <<" & ">> \o events[MinOf(rest)].title

\* C7: "Improve Efficiency Scores" is emitted exactly when the whole event
\* collection (whatever the visible month and the filter) holds an event of
\* efficiencyScore < 70, and it names the titles of the first one or two such
\* events, in collection order.
C7_ImproveEfficiency ==
  LET recs == Recs
      low  == LowIndices
  IN  /\ (\E i \in 1..Len(recs) : recs[i].title = "Improve Efficiency Scores")
           <=> low # {}
      /\ low # {} =>
           /\ recs[Len(recs)].title = "Improve Efficiency Scores"
           /\ recs[Len(recs)].detail =
                <<"Optimize schedules for ">> \o LowTitlesJoined
                \o <<" to boost their efficiency ratings above 70%.">>

\* C7 witness: events of score 54 and 68, in that order, are both named, in
\* a month that holds neither and under a filter that shows neither
C7_Witness ==
  /\ Len(events) = 2
  /\ events[1].efficiencyScore = 54
  /\ events[2].efficiencyScore = 68
  /\ Summary.totalEvents = 0
  /\ activeFilter = "Production"
  /\ Recs[Len(Recs)].detail =
       <<"Optimize schedules for ", "Data Center Load Test", " & ", "EV Fleet Charging",
         " to boost their efficiency ratings above 70%.">>

\* the date text of an event names the year and the month of the visible month
InVisibleMonth(e) ==
  /\ Len(e.date) = 10
  /\ NatOf(SubSeq(e.date, 1, 4)) = visibleMonth[1]
  /\ NatOf(SubSeq(e.date, 6, 7)) = visibleMonth[2]

\* the energy of the events of one type in the visible month, among the
\* first n events
RECURSIVE TotalOf(_, _)
TotalOf(type, n) ==
  IF n = 0 THEN 0
  ELSE TotalOf(type, n - 1)
       + (IF events[n].type = type /\ InVisibleMonth(events[n]) THEN events[n].energyKwh ELSE 0)

\* C8: netBalance = (Production total + Provision total) + Storage total
\* - Demand total, each total the sum of energyKwh over the events of that type
\* dated in the visible month; one Demand event of 420 and one Production event
\* of 560 give 140.
C8_NetBalance ==
  LET sum   == Summary
      total == [type \in EnergyTypes |-> TotalOf(type, Len(events))]
  IN  /\ \A type \in EnergyTypes : sum.totalsByType[type] = total[type]
      /\ sum.netBalance =
           (total["Production"] + total["Provision"]) + total["Storage"] - total["Demand"]
      /\ (/\ Len(events) = 2
          /\ \A i \in 1..2 : InVisibleMonth(events[i])
          /\ \E i \in 1..2 : events[i].type = "Demand" /\ events[i].energyKwh = 420 * Scale
          /\ \E i \in 1..2 : events[i].type = "Production" /\ events[i].energyKwh = 560 * Scale)
           => sum.netBalance = 140 * Scale

\* C8 witness: the month holds the Demand event of 420 and the Production
\* event of 560 and nothing else; the balance is 140 and positive
C8_Witness ==
  /\ events = <<initialEvents(now)[1], initialEvents(now)[2]>>
  /\ visibleMonth = startOfMonth(now)
  /\ Summary.netBalance = 140 * Scale
  /\ RecTitles[1] = "Positive Net Balance"
  /\ \A i \in 1..Len(Recs) : RecTitles[i] # "Demand Peaks Forecasted"

\* the events whose date text starts with the year-month of the visible month
SelectedIndices ==
  {i \in 1..Len(events) : startsWith(events[i].date, FormatMonth(visibleMonth))}

RECURSIVE ScoreSum(_)
ScoreSum(S) ==
  IF S = {} THEN 0
  ELSE LET i == CHOOSE x \in S : TRUE IN events[i].efficiencyScore + ScoreSum(S \ {i})

\* C9: averageEfficiency is the mean of efficiencyScore over the events whose
\* date text starts with the visible month's prefix, rounded to an integer, and
\* 0 when there is none; totalEvents counts those events and completedCount
\* those of them that are Completed.
C9_AverageEfficiency ==
  LET sum   == Summary
      sel   == SelectedIndices
      n     == Cardinality(sel)
      total == ScoreSum(sel)
      avg   == sum.averageEfficiency
  IN  /\ sum.totalEvents = n
      /\ sum.completedCount = Cardinality({i \in sel : events[i].status = "Completed"})
      /\ n = 0 => avg = 0
      /\ n > 0 => /\ 2 * avg * n - n <= 2 * total
                  /\ 2 * total < 2 * avg * n + n

\* C9 witness: the seven seed events in their month: the mean 536 / 7 is
\* rounded to 77, and three of the seven are completed
C9_Witness ==
  /\ events = initialEvents(now)
  /\ visibleMonth = startOfMonth(now)
  /\ Summary.totalEvents = 7
  /\ Summary.completedCount = 3
  /\ Summary.averageEfficiency = 77

Grid == monthInterval(visibleMonth)

\* the day of the visible month that the first day of the next month follows
LastDayOfVisibleMonth ==
  CHOOSE d \in 28..31 :
    DayNum(<<visibleMonth[1], visibleMonth[2], d>>) + 1 = DayNum(addMonths(visibleMonth, 1))

\* C10: the date grid of the visible month runs from the Sunday on or before
\* the first day of the month to the Saturday on or after its last day: its
\* length is a multiple of 7, each date is the day after the one before it, no
\* date is repeated, and every date of the month appears exactly once.
C10_DateGrid ==
  LET first == <<visibleMonth[1], visibleMonth[2], 1>>
      lastD == LastDayOfVisibleMonth
      last  == <<visibleMonth[1], visibleMonth[2], lastD>>
      grid  == Grid
      n     == Len(grid)
      num   == [i \in 1..n |-> DayNum(grid[i])]
  IN  /\ n > 0
      /\ n % 7 = 0
      /\ \A i \in 1..(n - 1) : num[i + 1] = num[i] + 1
      /\ \A i, j \in 1..n : i # j => grid[i] # grid[j]
      /\ getDay(grid[1]) = 0
      /\ DayNum(first) - num[1] \in 0..6
      /\ getDay(grid[n]) = 6
      /\ num[n] - DayNum(last) \in 0..6
      /\ \A d \in 1..lastD :
           Cardinality({i \in 1..n : grid[i] = <<visibleMonth[1], visibleMonth[2], d>>}) = 1

\* C10 witness: February 2024, reached by Next from January: five weeks from
\* Sunday January 28 to Saturday March 2, February 29 among them
C10_Witness ==
  /\ visibleMonth = <<2024, 2, 1>>
  /\ MonthOffset(visibleMonth) = 1
  /\ Len(Grid) = 35
  /\ Grid[1] = <<2024, 1, 28>>
  /\ Grid[35] = <<2024, 3, 2>>
  /\ \E i \in 1..35 : Grid[i] = <<2024, 2, 29>>

\* the positions in the store of the events dated d whose type the active
\* filter lets through
CellIndices(d) ==
  {k \in 1..Len(events) :
     /\ events[k].date = FormatDate(d)
     /\ (activeFilter = "All" \/ events[k].type = activeFilter)}

\* the members of a set of store positions, as events in store order
RECURSIVE InStoreOrder(_)
InStoreOrder(S) ==
  IF S = {} THEN <<>>
  ELSE LET k == CHOOSE x \in S : \A y \in S : x <= y
       IN  <<events[k]>> \o InStoreOrder(S \ {k})

\* C11: the cell of every grid date d shows exactly the events of the store
\* whose date is d and whose type is the active filter (every type under
\* "All"), in store order; under a filter other than "All" no shown event
\* has another type, and under "All" no event of the day is left out.
C11_DayCell ==
  LET grid == Grid
  IN  \A i \in 1..Len(grid) :
        LET cell == dayEvents(events, activeFilter, grid[i])
        IN  /\ cell = InStoreOrder(CellIndices(grid[i]))
            /\ activeFilter # "All" => \A j \in 1..Len(cell) : cell[j].type = activeFilter
            /\ activeFilter = "All" =>
                  \A k \in 1..Len(events) :
                    events[k].date = FormatDate(grid[i])
                      => \E j \in 1..Len(cell) : cell[j] = events[k]

\* C11 witness: under the Demand filter the cell of the first seed's day
\* shows the form's Demand event before the seed, as the store holds them,
\* and hides the Production event stored between the two
C11_Witness ==
  LET day  == parseISO(initialEvents(now)[1].date)
      cell == dayEvents(events, activeFilter, day)
  IN  /\ activeFilter = "Demand"
      /\ \E i \in 1..Len(Grid) : Grid[i] = day
      /\ Len(events) = 3
      /\ events[1].id = EventId(ClockBase + 1)
      /\ events[2].type = "Production"
      /\ events[2].date = events[1].date
      /\ events[3] = initialEvents(now)[1]
      /\ cell = <<events[1], events[3]>>

\* C12: an accepted submission leaves a draft whose title, energy text and
\* notes are empty and whose type, date and status are those of the draft
\* just submitted; a submission that follows an accepted one with no edit
\* in between is rejected and leaves the store as it was.
C12_ResetAfterAccepted ==
  [][ /\ lastSubmit' = "accepted" =>
           /\ newEvent'.title = <<>>
           /\ newEvent'.energyKwh = <<>>
           /\ newEvent'.notes = <<>>
           /\ newEvent'.type = newEvent.type
           /\ newEvent'.date = newEvent.date
           /\ newEvent'.status = newEvent.status
      /\ (lastSubmit = "accepted" /\ lastSubmit' # "none") =>
           /\ lastSubmit' = "rejected"
           /\ events' = events
    ]_vars

\* C12 witness: title, energy and type were edited, the draft was accepted as
\* a Production event, and the submission right after it, no edit having
\* followed, was rejected on the emptied draft that kept the type
C12_Witness ==
  /\ lastSubmit = "rejected"
  /\ edits = MaxFormEdits - 3
  /\ Len(events) = SeedCount + 1
  /\ events[Len(events)].type = "Production"
  /\ newEvent.type = "Production"
  /\ newEvent.date = events[Len(events)].date
  /\ newEvent.status = events[Len(events)].status
  /\ newEvent.title = <<>>
  /\ newEvent.energyKwh = <<>>
  /\ newEvent.notes = <<>>

====
